---- MODULE Spec2Model ----
(***************************************************************************)
(* node-tvmaze: a client for the TVmaze REST API (index.js).  Every        *)
(* endpoint method maps its arguments to a path and an options object and  *)
(* hands them to sendRequest, which merges the options over                *)
(* DEFAULT_OPTIONS, formats the URL, issues one GET through axios and      *)
(* returns a promise of response.data.                                     *)
(*                                                                         *)
(* Strings that end up in a URL are sequences of one-character strings, so *)
(* that concatenation, percent-encoding and parsing are computed and not   *)
(* assumed.  JavaScript values are records [t |-> type, v |-> payload];    *)
(* objects keep their entries in insertion order.                          *)
(***************************************************************************)
EXTENDS Integers, Sequences, FiniteSets

VARIABLES
    defaults,   \* the module-level DEFAULT_OPTIONS object
    calls,      \* one record per endpoint-method invocation, in call order
    requests    \* one record per request handed to axios, in issue order

vars == <<defaults, calls, requests>>

----------------------------------------------------------------------------
(* Bounds of the model *)

\* calls that may be outstanding together in Spec
MaxCalls == 2

\* longest embed list a caller passes
MaxEmbed == 2

----------------------------------------------------------------------------
(* JavaScript values *)

Undef == [t |-> "undefined", v |-> <<>>]

Null == [t |-> "null", v |-> <<>>]

Bool(b) == [t |-> "boolean", v |-> b]

Num(n) == [t |-> "number", v |-> n]

Str(s) == [t |-> "string", v |-> s]

Arr(s) == [t |-> "array", v |-> s]

\* an object: its own enumerable properties <<[k |-> key, v |-> value], ...>>
Obj(entries) == [t |-> "object", v |-> entries]

EmptyObject == Obj(<<>>)

Prop(k, v) == [k |-> k, v |-> v]

\* ToBoolean, as used by `(x) ? a : b` and `if (!x)`
Truthy(x) ==
    CASE x.t = "undefined" -> FALSE
      [] x.t = "null" -> FALSE
      [] x.t = "boolean" -> x.v
      [] x.t = "number" -> x.v # 0
      [] x.t = "string" -> x.v # <<>>
      [] OTHER -> TRUE

DigitChars == <<"0", "1", "2", "3", "4", "5", "6", "7", "8", "9">>

RECURSIVE NumberToString(_)
\* Number.prototype.toString for a non-negative integer
NumberToString(n) ==
    IF n < 10 THEN <<DigitChars[n + 1]>>
    ELSE NumberToString(n \div 10) \o <<DigitChars[(n % 10) + 1]>>

RECURSIVE JoinWith(_, _)
\* Array.prototype.join of a sequence of strings
JoinWith(parts, sep) ==
    IF parts = <<>> THEN <<>>
    ELSE IF Len(parts) = 1 THEN parts[1]
    ELSE parts[1] \o sep \o JoinWith(Tail(parts), sep)

RECURSIVE JsToString(_)
\* ToString, as applied by a template literal `${x}` and by a computed key
JsToString(x) ==
    CASE x.t = "undefined" -> <<"u","n","d","e","f","i","n","e","d">>
      [] x.t = "null" -> <<"n","u","l","l">>
      [] x.t = "boolean" -> IF x.v THEN <<"t","r","u","e">> ELSE <<"f","a","l","s","e">>
      [] x.t = "number" -> NumberToString(x.v)
      [] x.t = "string" -> x.v
      [] x.t = "array" ->
            JoinWith([i \in 1..Len(x.v) |->
                        IF x.v[i].t \in {"undefined", "null"} THEN <<>>
                        ELSE JsToString(x.v[i])], <<",">>)
      [] OTHER -> <<"[","o","b","j","e","c","t"," ","O","b","j","e","c","t","]">>

\* the keys of an object, in insertion order
Keys(o) == [i \in 1..Len(o.v) |-> o.v[i].k]

Has(o, k) == o.t = "object" /\ \E i \in 1..Len(o.v) : o.v[i].k = k

\* o[k]: undefined when o has no such property
Get(o, k) ==
    IF Has(o, k) THEN o.v[CHOOSE i \in 1..Len(o.v) : o.v[i].k = k].v
    ELSE Undef

\* o[k] = v: an existing key keeps its place, a new key is appended
Set(o, k, v) ==
    IF Has(o, k)
    THEN Obj([i \in 1..Len(o.v) |-> IF o.v[i].k = k THEN Prop(k, v) ELSE o.v[i]])
    ELSE Obj(Append(o.v, Prop(k, v)))

\* delete o[k]
Delete(o, k) == Obj(SelectSeq(o.v, LAMBDA e : e.k # k))

RECURSIVE AssignFrom(_, _, _)
AssignFrom(target, source, i) ==
    IF i > Len(source.v) THEN target
    ELSE AssignFrom(Set(target, source.v[i].k, source.v[i].v), source, i + 1)

\* Object.assign(target, source): a null or undefined source is skipped,
\* every own property of an object source is copied by value of the
\* property (a shallow copy)
ObjectAssign(target, source) ==
    IF source.t = "object" THEN AssignFrom(target, source, 1) ELSE target

----------------------------------------------------------------------------
(* querystring.stringify and url.format, as called by sendRequest *)

\* the percent-encoding of one character by querystring.escape; letters,
\* digits and - _ . ! ~ * ' ( ) are left alone
PercentEncodeChar(ch) ==
    CASE ch = " " -> <<"%","2","0">>
      [] ch = "#" -> <<"%","2","3">>
      [] ch = "%" -> <<"%","2","5">>
      [] ch = "&" -> <<"%","2","6">>
      [] ch = "+" -> <<"%","2","B">>
      [] ch = "," -> <<"%","2","C">>
      [] ch = "/" -> <<"%","2","F">>
      [] ch = ":" -> <<"%","3","A">>
      [] ch = "=" -> <<"%","3","D">>
      [] ch = "?" -> <<"%","3","F">>
      [] ch = "[" -> <<"%","5","B">>
      [] ch = "]" -> <<"%","5","D">>
      [] OTHER -> <<ch>>

RECURSIVE QsEscape(_)
QsEscape(s) ==
    IF s = <<>> THEN <<>> ELSE PercentEncodeChar(Head(s)) \o QsEscape(Tail(s))

\* querystring's stringifyPrimitive: strings, finite numbers and booleans
\* are converted, everything else becomes the empty string
StringifyPrimitive(x) ==
    CASE x.t = "string" -> x.v
      [] x.t = "number" -> NumberToString(x.v)
      [] x.t = "boolean" -> IF x.v THEN <<"t","r","u","e">> ELSE <<"f","a","l","s","e">>
      [] OTHER -> <<>>

\* A faulty serialisation, for comparison: an array value becomes one
\* field holding its elements joined by commas
QsFieldsJoined(e) ==
    LET ks == QsEscape(e.k) \o <<"=">>
    IN  IF e.v.t = "array"
        THEN IF e.v.v = <<>> THEN <<>>
             ELSE <<ks \o QsEscape(JoinWith([j \in 1..Len(e.v.v) |->
                                               StringifyPrimitive(e.v.v[j])], <<",">>))>>
        ELSE <<ks \o QsEscape(StringifyPrimitive(e.v))>>

\* the fields one property contributes: one key=value per element of an
\* array value (none for an empty array), one key=value otherwise
QsFields(e) ==
    LET ks == QsEscape(e.k) \o <<"=">>
    IN  IF e.v.t = "array"
        THEN [j \in 1..Len(e.v.v) |-> ks \o QsEscape(StringifyPrimitive(e.v.v[j]))]
        ELSE <<ks \o QsEscape(StringifyPrimitive(e.v))>>

RECURSIVE QsAllFieldsReversed(_)
\* A faulty serialisation, for comparison: the properties are visited from
\* the last inserted to the first
QsAllFieldsReversed(entries) ==
    IF entries = <<>> THEN <<>>
    ELSE QsAllFieldsReversed(Tail(entries)) \o QsFields(Head(entries))

RECURSIVE QsAllFields(_)
QsAllFields(entries) ==
    IF entries = <<>> THEN <<>>
    ELSE QsFields(Head(entries)) \o QsAllFields(Tail(entries))

\* querystring.stringify(obj): the fields of the properties in insertion
\* order, joined by &
QsStringify(obj) == JoinWith(QsAllFields(obj.v), <<"&">>)

RECURSIVE EscapePathname(_)
\* url.format escapes ? and # in the pathname
EscapePathname(p) ==
    IF p = <<>> THEN <<>>
    ELSE (CASE Head(p) = "?" -> <<"%","3","F">>
            [] Head(p) = "#" -> <<"%","2","3">>
            [] OTHER -> <<Head(p)>>) \o EscapePathname(Tail(p))

\* url.format({pathname, query}): the query is stringified only when it is
\* a non-null object, and a ? is added only before a non-empty query
UrlFormat(pathname, query) ==
    LET qs == IF query.t = "object" THEN QsStringify(query) ELSE <<>>
        srch == IF qs # <<>> THEN <<"?">> \o qs ELSE <<>>
    IN  EscapePathname(pathname) \o srch

----------------------------------------------------------------------------
(* String literals of index.js that are longer than a few characters *)

\* "https://"
L_https == <<"h","t","t","p","s",":","/","/">>

\* "http://"
L_http == <<"h","t","t","p",":","/","/">>

\* "search/shows"
L_search_shows == <<"s","e","a","r","c","h","/","s","h","o","w","s">>

\* "singlesearch/shows"
L_singlesearch_shows == <<"s","i","n","g","l","e","s","e","a","r","c","h","/","s","h","o","w","s">>

\* "embed[]"
L_embed__ == <<"e","m","b","e","d","[","]">>

\* "search/people"
L_search_people == <<"s","e","a","r","c","h","/","p","e","o","p","l","e">>

\* "lookup/shows"
L_lookup_shows == <<"l","o","o","k","u","p","/","s","h","o","w","s">>

\* "thetvdb"
L_thetvdb == <<"t","h","e","t","v","d","b">>

\* "tvrage"
L_tvrage == <<"t","v","r","a","g","e">>

\* "schedule"
L_schedule == <<"s","c","h","e","d","u","l","e">>

\* "countrycode"
L_countrycode == <<"c","o","u","n","t","r","y","c","o","d","e">>

\* "schedule/full"
L_schedule_full == <<"s","c","h","e","d","u","l","e","/","f","u","l","l">>

\* "shows/"
L_shows_ == <<"s","h","o","w","s","/">>

\* "specials"
L_specials == <<"s","p","e","c","i","a","l","s">>

\* "/episodes"
L__episodes == <<"/","e","p","i","s","o","d","e","s">>

\* "/episodebynumber"
L__episodebynumber == <<"/","e","p","i","s","o","d","e","b","y","n","u","m","b","e","r">>

\* "season"
L_season == <<"s","e","a","s","o","n">>

\* "number"
L_number == <<"n","u","m","b","e","r">>

\* "/episodesbydate"
L__episodesbydate == <<"/","e","p","i","s","o","d","e","s","b","y","d","a","t","e">>

\* "/seasons"
L__seasons == <<"/","s","e","a","s","o","n","s">>

\* "seasons/"
L_seasons_ == <<"s","e","a","s","o","n","s","/">>

\* "/cast"
L__cast == <<"/","c","a","s","t">>

\* "/crew"
L__crew == <<"/","c","r","e","w">>

\* "/akas"
L__akas == <<"/","a","k","a","s">>

\* "shows"
L_shows == <<"s","h","o","w","s">>

\* "updates/shows"
L_updates_shows == <<"u","p","d","a","t","e","s","/","s","h","o","w","s">>

\* "people/"
L_people_ == <<"p","e","o","p","l","e","/">>

\* "/castcredits"
L__castcredits == <<"/","c","a","s","t","c","r","e","d","i","t","s">>

\* "/crewcredits"
L__crewcredits == <<"/","c","r","e","w","c","r","e","d","i","t","s">>

----------------------------------------------------------------------------
(* Module-level constants of index.js *)

BASE_URL == <<"a","p","i",".","t","v","m","a","z","e",".","c","o","m","/">>

\* the User-Agent value `Mozilla/5.0 (Node.js) Tvmaze/${VERSION}`; it never
\* enters a URL, so it is kept as one token
DEFAULT_USER_AGENT == Str(<<"Mozilla/5.0 (Node.js) Tvmaze/VERSION">>)

DEFAULT_OPTIONS ==
    Obj(<<Prop("https", Bool(FALSE)),
          Prop("header", Obj(<<Prop("User-Agent", DEFAULT_USER_AGENT)>>))>>)

----------------------------------------------------------------------------
(* sendRequest *)

\* A faulty merge, for comparison: merges the caller's header object into
\* the default one instead of replacing it
MergeOptionsDeepHeader(options) ==
    LET shallow == ObjectAssign(ObjectAssign(EmptyObject, defaults), options)
    IN  Set(shallow, "header",
            ObjectAssign(ObjectAssign(EmptyObject, Get(defaults, "header")),
                         Get(options, "header")))

\* const opts = Object.assign({}, DEFAULT_OPTIONS, options)
MergeOptions(options) ==
    ObjectAssign(ObjectAssign(EmptyObject, defaults), options)

\* A faulty scheme switch, for comparison: the https option is ignored
BaseUrlHttpOnly(opts) == L_http \o BASE_URL

\* (opts.https) ? ("https://" + BASE_URL) : ("http://" + BASE_URL)
BaseUrl(opts) ==
    IF Truthy(Get(opts, "https")) THEN L_https \o BASE_URL
    ELSE L_http \o BASE_URL

\* base_url + url.format({pathname: path, query: opts.query})
RequestUrl(path, opts) == BaseUrl(opts) \o UrlFormat(path, Get(opts, "query"))

\* the requestOpts object handed to axios
RequestOpts(path, options) ==
    LET opts == MergeOptions(options)
    IN  [method |-> "GET",
         url |-> RequestUrl(path, opts),
         headers |-> Get(opts, "header")]

\* the caller's options object once the method has returned, `sent` being
\* the object the method handed to sendRequest: every Object.assign of
\* index.js copies into a fresh {} as its target, so nothing is written to
\* the caller's object
CallerOptionsAfter(options, sent) == options

\* A faulty sendRequest, for comparison: Object.assign(DEFAULT_OPTIONS,
\* options) merges the call's options into the shared defaults and uses
\* the defaults object as opts
sendRequestIntoDefaults(by, path, options) ==
    LET opts == ObjectAssign(defaults, options)
    IN  /\ requests' = Append(requests,
                [call |-> Len(calls) + 1,
                 method |-> "GET",
                 url |-> RequestUrl(path, opts),
                 headers |-> Get(opts, "header"),
                 state |-> "inflight",
                 result |-> Undef])
        /\ calls' = Append(calls,
                [method |-> by.method,
                 args |-> by.args,
                 options |-> by.options,
                 optionsAfter |-> CallerOptionsAfter(by.options, options),
                 path |-> path,
                 sent |-> options,
                 req |-> Len(requests) + 1,
                 state |-> "pending",
                 value |-> Undef])
        /\ defaults' = opts

\* sendRequest(path, options), up to the promise it returns: one request is
\* handed to axios and the call's promise is pending.  `by` records which
\* endpoint method made the call, with which arguments and caller options.
sendRequest(by, path, options) ==
    LET ro == RequestOpts(path, options)
    IN  /\ requests' = Append(requests,
                [call |-> Len(calls) + 1,
                 method |-> ro.method,
                 url |-> ro.url,
                 headers |-> ro.headers,
                 state |-> "inflight",
                 result |-> Undef])
        /\ calls' = Append(calls,
                [method |-> by.method,
                 args |-> by.args,
                 options |-> by.options,
                 optionsAfter |-> CallerOptionsAfter(by.options, options),
                 path |-> path,
                 sent |-> options,
                 req |-> Len(requests) + 1,
                 state |-> "pending",
                 value |-> Undef])
        /\ UNCHANGED defaults

\* A faulty then-callback, for comparison: returns the whole response
thenCallbackWhole(response) == response

\* .then(response => { return response.data; })
thenCallback(response) == response.data

\* A faulty catch-callback, for comparison: throws a new error that wraps
\* the transport's
catchCallbackWrapped(error) ==
    [name |-> "Error", message |-> "request failed", cause |-> error]

\* .catch(error => { throw error; }): the value the handler throws
catchCallback(error) == error

\* the request of call c has been fulfilled: the then-callback runs and the
\* returned promise is fulfilled with what it returns
OnFulfilled(c) ==
    /\ calls[c].state = "pending"
    /\ requests[calls[c].req].state = "fulfilled"
    /\ calls' = [calls EXCEPT ![c].state = "fulfilled",
                              ![c].value = thenCallback(requests[calls[c].req].result)]
    /\ UNCHANGED <<defaults, requests>>

\* A faulty rejection handler, for comparison: retries the request once
\* more instead of rejecting
OnRejectedRetry(c) ==
    /\ calls[c].state = "pending"
    /\ requests[calls[c].req].state = "rejected"
    /\ requests' = Append(requests,
            [requests[calls[c].req] EXCEPT !.state = "inflight", !.result = Undef])
    /\ calls' = [calls EXCEPT ![c].req = Len(requests) + 1]
    /\ UNCHANGED defaults

\* the request of call c has been rejected: the then-callback is skipped,
\* the catch-callback runs and the returned promise is rejected with what
\* it throws
OnRejected(c) ==
    /\ calls[c].state = "pending"
    /\ requests[calls[c].req].state = "rejected"
    /\ calls' = [calls EXCEPT ![c].state = "rejected",
                              ![c].value = catchCallback(requests[calls[c].req].result)]
    /\ UNCHANGED <<defaults, requests>>

\* the response axios resolves with
Response(body) == [status |-> 200, data |-> body]

\* axios fulfils the promise of an in-flight request
TransportResolve(U) ==
    \E r \in 1..Len(requests), body \in U.bodies :
        /\ requests[r].state = "inflight"
        /\ requests' = [requests EXCEPT ![r].state = "fulfilled",
                                        ![r].result = Response(body)]
        /\ UNCHANGED <<defaults, calls>>

\* axios rejects the promise of an in-flight request (network error or
\* non-2xx status)
TransportReject(U) ==
    \E r \in 1..Len(requests), error \in U.errors :
        /\ requests[r].state = "inflight"
        /\ requests' = [requests EXCEPT ![r].state = "rejected",
                                        ![r].result = error]
        /\ UNCHANGED <<defaults, calls>>

----------------------------------------------------------------------------
(* Endpoint methods: the path and options each hands to sendRequest *)

\* A faulty merge, for comparison: Object.assign({}, {query: query},
\* options), where a query of the caller's options overrides the method's
WithQueryCallerWins(options, query) ==
    ObjectAssign(ObjectAssign(EmptyObject, Obj(<<Prop("query", query)>>)), options)

\* Object.assign({}, options, {query: query})
WithQuery(options, query) ==
    ObjectAssign(ObjectAssign(EmptyObject, options), Obj(<<Prop("query", query)>>))

search_call(string, options) ==
    [path |-> L_search_shows,
     options |-> WithQuery(options, Obj(<<Prop(<<"q">>, string)>>))]

\* A faulty singleSearch, for comparison: never deletes the embed[] key
singleSearch_call_keepEmbed(string, embed, options) ==
    [path |-> L_singlesearch_shows,
     options |-> WithQuery(options,
                    Obj(<<Prop(<<"q">>, string), Prop(L_embed__, embed)>>))]

singleSearch_call(string, embed, options) ==
    LET query == Obj(<<Prop(<<"q">>, string), Prop(L_embed__, embed)>>)
    IN  [path |-> L_singlesearch_shows,
         options |-> WithQuery(options,
                        IF ~Truthy(embed) THEN Delete(query, L_embed__) ELSE query)]

searchPeople_call(string, options) ==
    [path |-> L_search_people,
     options |-> WithQuery(options, Obj(<<Prop(<<"q">>, string)>>))]

\* query[type] = id: the key is the type converted to a string
\* A faulty lookup, for comparison: query.type = id, the key is the literal
\* word "type" instead of the type's name
lookup_call_literalKey(type, id, options) ==
    [path |-> L_lookup_shows,
     options |-> WithQuery(options, Obj(<<Prop(<<"t","y","p","e">>, id)>>))]

lookup_call(type, id, options) ==
    [path |-> L_lookup_shows,
     options |-> WithQuery(options, Set(EmptyObject, JsToString(type), id))]

lookupThetvdb_call(id, options) == lookup_call(Str(L_thetvdb), id, options)

lookupImdb_call(id, options) == lookup_call(Str(<<"i","m","d","b">>), id, options)

lookupTvrage_call(id, options) == lookup_call(Str(L_tvrage), id, options)

schedule_call(countryCode, date, options) ==
    [path |-> L_schedule,
     options |-> WithQuery(options,
                    Obj(<<Prop(L_countrycode, countryCode),
                          Prop(<<"d","a","t","e">>, date)>>))]

fullSchedule_call(options) == [path |-> L_schedule_full, options |-> options]

\* A faulty show, for comparison: hands the caller's options on unchanged
\* when no embed is given
show_call_passOptions(showid, embed, options) ==
    [path |-> L_shows_ \o JsToString(showid),
     options |-> IF Truthy(embed)
                 THEN WithQuery(options, Obj(<<Prop(L_embed__, embed)>>))
                 ELSE options]

show_call(showid, embed, options) ==
    LET query == Obj(<<Prop(L_embed__, embed)>>)
    IN  [path |-> L_shows_ \o JsToString(showid),
         options |-> WithQuery(options, IF Truthy(embed) THEN query ELSE Null)]

episodes_call(showid, specials, options) ==
    LET query == Obj(<<Prop(L_specials, Num(1))>>)
    IN  [path |-> L_shows_ \o JsToString(showid) \o L__episodes,
         options |-> WithQuery(options, IF Truthy(specials) THEN query ELSE Null)]

episode_call(showid, season, episode, options) ==
    [path |-> L_shows_ \o JsToString(showid) \o L__episodebynumber,
     options |-> WithQuery(options,
                    Obj(<<Prop(L_season, season), Prop(L_number, episode)>>))]

episodesByDate_call(showid, date, options) ==
    [path |-> L_shows_ \o JsToString(showid) \o L__episodesbydate,
     options |-> WithQuery(options, Obj(<<Prop(<<"d","a","t","e">>, date)>>))]

seasons_call(showid, options) ==
    [path |-> L_shows_ \o JsToString(showid) \o L__seasons, options |-> options]

seasonEpisodes_call(seasonid, options) ==
    [path |-> L_seasons_ \o JsToString(seasonid) \o L__episodes, options |-> options]

cast_call(showid, options) ==
    [path |-> L_shows_ \o JsToString(showid) \o L__cast, options |-> options]

crew_call(showid, options) ==
    [path |-> L_shows_ \o JsToString(showid) \o L__crew, options |-> options]

aliases_call(showid, options) ==
    [path |-> L_shows_ \o JsToString(showid) \o L__akas, options |-> options]

\* A faulty showsIndex, for comparison: tests the page against undefined
\* instead of for truthiness
showsIndex_call_ifDefined(page, options) ==
    [path |-> L_shows,
     options |-> WithQuery(options,
                    IF page # Undef THEN Obj(<<Prop(<<"p","a","g","e">>, page)>>) ELSE Null)]

showsIndex_call(page, options) ==
    LET query == Obj(<<Prop(<<"p","a","g","e">>, page)>>)
    IN  [path |-> L_shows,
         options |-> WithQuery(options, IF Truthy(page) THEN query ELSE Null)]

showUpdates_call(options) == [path |-> L_updates_shows, options |-> options]

person_call(personid, embed, options) ==
    LET query == Obj(<<Prop(L_embed__, embed)>>)
    IN  [path |-> L_people_ \o JsToString(personid),
         options |-> WithQuery(options, IF Truthy(embed) THEN query ELSE Null)]

personCastCredits_call(personid, embed, options) ==
    LET query == Obj(<<Prop(L_embed__, embed)>>)
    IN  [path |-> L_people_ \o JsToString(personid) \o L__castcredits,
         options |-> WithQuery(options, IF Truthy(embed) THEN query ELSE Null)]

personCrewCredits_call(personid, embed, options) ==
    LET query == Obj(<<Prop(L_embed__, embed)>>)
    IN  [path |-> L_people_ \o JsToString(personid) \o L__crewcredits,
         options |-> WithQuery(options, IF Truthy(embed) THEN query ELSE Null)]

----------------------------------------------------------------------------
(* What callers pass and what the transport answers.  A universe U names   *)
(* the set each argument is drawn from; undefined stands for an argument   *)
(* the caller left out.                                                    *)

\* every sequence over S of length at most n
SeqsUpTo(S, n) == UNION {[1..m -> S] : m \in 0..n}

EmbedNames == {Str(<<"c","a","s","t">>), Str(<<"a",",","b","&","c">>)}

CustomUserAgent == Obj(<<Prop("User-Agent", Str(<<"custom-agent/1.0">>))>>)

AcceptHeader == Obj(<<Prop("Accept", Str(<<"application/json">>))>>)

\* the options objects built from optional https, header and query fields
OptionObjects(https, headers, queries) ==
    {Obj(h \o hd \o q) :
        h \in {<<>>} \cup {<<Prop("https", x)>> : x \in https},
        hd \in {<<>>} \cup {<<Prop("header", x)>> : x \in headers},
        q \in {<<>>} \cup {<<Prop("query", x)>> : x \in queries}}

Rich ==
    [strs |-> {Undef, Str(<<"a"," ","b">>),
               Str(<<"a","&","e","m","b","e","d","[","]","=","x">>)},
     ids |-> {Undef, Num(396), Str(<<"1","?","e","m","b","e","d","[","]","=","x","#">>)},
     embeds |-> {Undef} \cup {Arr(s) : s \in SeqsUpTo(EmbedNames, MaxEmbed)},
     pages |-> {Undef, Null, Num(0), Num(1), Num(12)},
     specials |-> {Undef, Bool(FALSE), Bool(TRUE)},
     nums |-> {Undef, Num(1), Num(10)},
     dates |-> {Undef, Str(<<"2","0","1","9","-","0","3","-","1","5">>)},
     countries |-> {Undef, Str(<<"G","B">>)},
     types |-> {Undef, Str(<<"i","m","d","b">>), Str(<<"t","h","e","t","v","d","b">>),
                Str(<<"t","v","r","a","g","e">>), Str(<<"a","&","b"," ","c">>)},
     extids |-> {Undef, Str(<<"t","t","3","5","3","0","2","3","2">>)},
     opts |-> {Undef} \cup
              OptionObjects({Bool(TRUE), Bool(FALSE)},
                            {CustomUserAgent, AcceptHeader},
                            {Null,
                             Obj(<<Prop(<<"p","a","g","e">>, Num(0))>>),
                             Obj(<<Prop(<<"p","a","g","e">>, Num(1))>>),
                             Obj(<<Prop(<<"p","a","g","e">>, Arr(<<>>))>>),
                             Obj(<<Prop(<<"e","m","b","e","d","[","]">>,
                                        Arr(<<Str(<<"c","a","s","t">>)>>))>>)}),
     bodies |-> {[json |-> "{id:396}"], [json |-> "[]"]},
     errors |-> {[name |-> "AxiosError", code |-> "ECONNREFUSED", status |-> 0],
                 [name |-> "AxiosError", code |-> "ERR_BAD_REQUEST", status |-> 404]}]

Lean ==
    [strs |-> {Str(<<"a"," ","b">>)},
     ids |-> {Num(396)},
     embeds |-> {Arr(<<Str(<<"c","a","s","t">>)>>)},
     pages |-> {Num(1)},
     specials |-> {Bool(TRUE)},
     nums |-> {Num(1)},
     dates |-> {Str(<<"2","0","1","9","-","0","3","-","1","5">>)},
     countries |-> {Str(<<"G","B">>)},
     types |-> {Str(<<"i","m","d","b">>)},
     extids |-> {Str(<<"t","t","3","5","3","0","2","3","2">>)},
     opts |-> {Obj(<<Prop("https", Bool(TRUE)), Prop("header", AcceptHeader)>>)},
     bodies |-> {[json |-> "{id:396}"]},
     errors |-> {[name |-> "AxiosError", code |-> "ERR_BAD_REQUEST", status |-> 404]}]

\* who calls sendRequest: the endpoint method, its arguments by name and
\* the options object the caller passed
By(method, args, options) == [method |-> method, args |-> args, options |-> options]

----------------------------------------------------------------------------
(* Endpoint methods as actions: a caller invokes the method while fewer    *)
(* than `limit` calls have been made                                       *)

search(U, limit) ==
    /\ Len(calls) < limit
    /\ \E string \in U.strs, options \in U.opts :
        LET rq == search_call(string, options)
            by == By("search", [string |-> string], options)
        IN  sendRequest(by, rq.path, rq.options)

singleSearch(U, limit) ==
    /\ Len(calls) < limit
    /\ \E string \in U.strs, embed \in U.embeds, options \in U.opts :
        LET rq == singleSearch_call(string, embed, options)
            by == By("singleSearch", [string |-> string, embed |-> embed], options)
        IN  sendRequest(by, rq.path, rq.options)

searchPeople(U, limit) ==
    /\ Len(calls) < limit
    /\ \E string \in U.strs, options \in U.opts :
        LET rq == searchPeople_call(string, options)
            by == By("searchPeople", [string |-> string], options)
        IN  sendRequest(by, rq.path, rq.options)

lookup(U, limit) ==
    /\ Len(calls) < limit
    /\ \E type \in U.types, id \in U.extids, options \in U.opts :
        LET rq == lookup_call(type, id, options)
            by == By("lookup", [type |-> type, id |-> id], options)
        IN  sendRequest(by, rq.path, rq.options)

lookupThetvdb(U, limit) ==
    /\ Len(calls) < limit
    /\ \E id \in U.extids, options \in U.opts :
        LET rq == lookupThetvdb_call(id, options)
            by == By("lookupThetvdb", [id |-> id], options)
        IN  sendRequest(by, rq.path, rq.options)

lookupImdb(U, limit) ==
    /\ Len(calls) < limit
    /\ \E id \in U.extids, options \in U.opts :
        LET rq == lookupImdb_call(id, options)
            by == By("lookupImdb", [id |-> id], options)
        IN  sendRequest(by, rq.path, rq.options)

lookupTvrage(U, limit) ==
    /\ Len(calls) < limit
    /\ \E id \in U.extids, options \in U.opts :
        LET rq == lookupTvrage_call(id, options)
            by == By("lookupTvrage", [id |-> id], options)
        IN  sendRequest(by, rq.path, rq.options)

schedule(U, limit) ==
    /\ Len(calls) < limit
    /\ \E countryCode \in U.countries, date \in U.dates, options \in U.opts :
        LET rq == schedule_call(countryCode, date, options)
            by == By("schedule", [countryCode |-> countryCode, date |-> date], options)
        IN  sendRequest(by, rq.path, rq.options)

fullSchedule(U, limit) ==
    /\ Len(calls) < limit
    /\ \E options \in U.opts :
        LET rq == fullSchedule_call(options)
            by == By("fullSchedule", [none |-> Undef], options)
        IN  sendRequest(by, rq.path, rq.options)

show(U, limit) ==
    /\ Len(calls) < limit
    /\ \E showid \in U.ids, embed \in U.embeds, options \in U.opts :
        LET rq == show_call(showid, embed, options)
            by == By("show", [showid |-> showid, embed |-> embed], options)
        IN  sendRequest(by, rq.path, rq.options)

episodes(U, limit) ==
    /\ Len(calls) < limit
    /\ \E showid \in U.ids, specials \in U.specials, options \in U.opts :
        LET rq == episodes_call(showid, specials, options)
            by == By("episodes", [showid |-> showid, specials |-> specials], options)
        IN  sendRequest(by, rq.path, rq.options)

episode(U, limit) ==
    /\ Len(calls) < limit
    /\ \E showid \in U.ids, season \in U.nums, number \in U.nums, options \in U.opts :
        LET rq == episode_call(showid, season, number, options)
            by == By("episode",
                     [showid |-> showid, season |-> season, episode |-> number],
                     options)
        IN  sendRequest(by, rq.path, rq.options)

episodesByDate(U, limit) ==
    /\ Len(calls) < limit
    /\ \E showid \in U.ids, date \in U.dates, options \in U.opts :
        LET rq == episodesByDate_call(showid, date, options)
            by == By("episodesByDate", [showid |-> showid, date |-> date], options)
        IN  sendRequest(by, rq.path, rq.options)

seasons(U, limit) ==
    /\ Len(calls) < limit
    /\ \E showid \in U.ids, options \in U.opts :
        LET rq == seasons_call(showid, options)
            by == By("seasons", [showid |-> showid], options)
        IN  sendRequest(by, rq.path, rq.options)

seasonEpisodes(U, limit) ==
    /\ Len(calls) < limit
    /\ \E seasonid \in U.ids, options \in U.opts :
        LET rq == seasonEpisodes_call(seasonid, options)
            by == By("seasonEpisodes", [seasonid |-> seasonid], options)
        IN  sendRequest(by, rq.path, rq.options)

cast(U, limit) ==
    /\ Len(calls) < limit
    /\ \E showid \in U.ids, options \in U.opts :
        LET rq == cast_call(showid, options)
            by == By("cast", [showid |-> showid], options)
        IN  sendRequest(by, rq.path, rq.options)

crew(U, limit) ==
    /\ Len(calls) < limit
    /\ \E showid \in U.ids, options \in U.opts :
        LET rq == crew_call(showid, options)
            by == By("crew", [showid |-> showid], options)
        IN  sendRequest(by, rq.path, rq.options)

aliases(U, limit) ==
    /\ Len(calls) < limit
    /\ \E showid \in U.ids, options \in U.opts :
        LET rq == aliases_call(showid, options)
            by == By("aliases", [showid |-> showid], options)
        IN  sendRequest(by, rq.path, rq.options)

showsIndex(U, limit) ==
    /\ Len(calls) < limit
    /\ \E page \in U.pages, options \in U.opts :
        LET rq == showsIndex_call(page, options)
            by == By("showsIndex", [page |-> page], options)
        IN  sendRequest(by, rq.path, rq.options)

showUpdates(U, limit) ==
    /\ Len(calls) < limit
    /\ \E options \in U.opts :
        LET rq == showUpdates_call(options)
            by == By("showUpdates", [none |-> Undef], options)
        IN  sendRequest(by, rq.path, rq.options)

person(U, limit) ==
    /\ Len(calls) < limit
    /\ \E personid \in U.ids, embed \in U.embeds, options \in U.opts :
        LET rq == person_call(personid, embed, options)
            by == By("person", [personid |-> personid, embed |-> embed], options)
        IN  sendRequest(by, rq.path, rq.options)

personCastCredits(U, limit) ==
    /\ Len(calls) < limit
    /\ \E personid \in U.ids, embed \in U.embeds, options \in U.opts :
        LET rq == personCastCredits_call(personid, embed, options)
            by == By("personCastCredits", [personid |-> personid, embed |-> embed], options)
        IN  sendRequest(by, rq.path, rq.options)

personCrewCredits(U, limit) ==
    /\ Len(calls) < limit
    /\ \E personid \in U.ids, embed \in U.embeds, options \in U.opts :
        LET rq == personCrewCredits_call(personid, embed, options)
            by == By("personCrewCredits", [personid |-> personid, embed |-> embed], options)
        IN  sendRequest(by, rq.path, rq.options)

----------------------------------------------------------------------------
(* Specifications *)

Init ==
    /\ defaults = DEFAULT_OPTIONS
    /\ calls = <<>>
    /\ requests = <<>>

Step(U, limit) ==
    \/ search(U, limit)
    \/ singleSearch(U, limit)
    \/ searchPeople(U, limit)
    \/ lookup(U, limit)
    \/ lookupThetvdb(U, limit)
    \/ lookupImdb(U, limit)
    \/ lookupTvrage(U, limit)
    \/ schedule(U, limit)
    \/ fullSchedule(U, limit)
    \/ show(U, limit)
    \/ episodes(U, limit)
    \/ episode(U, limit)
    \/ episodesByDate(U, limit)
    \/ seasons(U, limit)
    \/ seasonEpisodes(U, limit)
    \/ cast(U, limit)
    \/ crew(U, limit)
    \/ aliases(U, limit)
    \/ showsIndex(U, limit)
    \/ showUpdates(U, limit)
    \/ person(U, limit)
    \/ personCastCredits(U, limit)
    \/ personCrewCredits(U, limit)
    \/ TransportResolve(U)
    \/ TransportReject(U)
    \/ \E c \in 1..Len(calls) : OnFulfilled(c)
    \/ \E c \in 1..Len(calls) : OnRejected(c)

\* callers that keep up to MaxCalls calls outstanding together
Next == Step(Lean, MaxCalls)

Spec == Init /\ [][Next]_vars

\* one caller making one call, with every combination of arguments
NextSeq == Step(Rich, 1)

SpecSeq == Init /\ [][NextSeq]_vars

----------------------------------------------------------------------------
(* Reading a request URL back, independently of how it was built *)

\* the first position of ch in s, 0 when s has none
IndexOf(s, ch) ==
    IF \E i \in 1..Len(s) : s[i] = ch
    THEN CHOOSE i \in 1..Len(s) : s[i] = ch /\ \A j \in 1..(i - 1) : s[j] # ch
    ELSE 0

RECURSIVE SplitOn(_, _)
SplitOn(s, ch) ==
    LET i == IndexOf(s, ch)
    IN  IF i = 0 THEN <<s>>
        ELSE <<SubSeq(s, 1, i - 1)>> \o SplitOn(SubSeq(s, i + 1, Len(s)), ch)

\* the character a %XY escape stands for
HexChar(x, y) ==
    CASE <<x, y>> = <<"2", "0">> -> " "
      [] <<x, y>> = <<"2", "3">> -> "#"
      [] <<x, y>> = <<"2", "5">> -> "%"
      [] <<x, y>> = <<"2", "6">> -> "&"
      [] <<x, y>> = <<"2", "B">> -> "+"
      [] <<x, y>> = <<"2", "C">> -> ","
      [] <<x, y>> = <<"2", "F">> -> "/"
      [] <<x, y>> = <<"3", "A">> -> ":"
      [] <<x, y>> = <<"3", "D">> -> "="
      [] <<x, y>> = <<"3", "F">> -> "?"
      [] <<x, y>> = <<"5", "B">> -> "["
      [] <<x, y>> = <<"5", "D">> -> "]"
      [] OTHER -> "?"

RECURSIVE PercentDecode(_)
PercentDecode(s) ==
    IF s = <<>> THEN <<>>
    ELSE IF Head(s) = "%" /\ Len(s) >= 3
         THEN <<HexChar(s[2], s[3])>> \o PercentDecode(SubSeq(s, 4, Len(s)))
         ELSE <<Head(s)>> \o PercentDecode(Tail(s))

\* what follows the first ? of a URL
UrlSearch(url) ==
    LET i == IndexOf(url, "?")
    IN  IF i = 0 THEN <<>> ELSE SubSeq(url, i + 1, Len(url))

\* the decoded key/value entries of a URL's query string, in order
UrlQuery(url) ==
    LET qs == UrlSearch(url)
        fields == IF qs = <<>> THEN <<>> ELSE SplitOn(qs, "&")
    IN  [i \in 1..Len(fields) |->
            LET j == IndexOf(fields[i], "=")
            IN  IF j = 0 THEN [k |-> PercentDecode(fields[i]), v |-> <<>>]
                ELSE [k |-> PercentDecode(SubSeq(fields[i], 1, j - 1)),
                      v |-> PercentDecode(SubSeq(fields[i], j + 1, Len(fields[i])))]]

QueryHasKey(url, key) == \E i \in 1..Len(UrlQuery(url)) : UrlQuery(url)[i].k = key

\* the values of the entries with this key, in order
QueryValues(url, key) ==
    LET hits == SelectSeq(UrlQuery(url), LAMBDA e : e.k = key)
    IN  [i \in 1..Len(hits) |-> hits[i].v]

CallIds == 1..Len(calls)

\* the requests issued for call c
RequestsOf(c) == {r \in 1..Len(requests) : requests[r].call = c}

\* the request whose promise call c's callbacks are attached to
Req(c) == requests[calls[c].req]

EmbedMethods ==
    {"show", "person", "personCastCredits", "personCrewCredits", "singleSearch"}

\* the header object of DEFAULT_OPTIONS as index.js declares it
DefaultHeader == Get(DEFAULT_OPTIONS, "header")

----------------------------------------------------------------------------
(* C1 *)

\* C1 as stated: when the caller's options carry a header object, every
\* supplied header is sent with the caller's value and every default header
\* the caller did not name is still sent with its default value; when they
\* carry none, the default User-Agent is sent.
C1_HeaderMergeLaw ==
    \A c \in CallIds :
        LET given == Get(calls[c].options, "header")
            sent == Req(c).headers
        IN  IF given.t = "object"
            THEN /\ \A i \in 1..Len(given.v) :
                        Has(sent, given.v[i].k) /\ Get(sent, given.v[i].k) = given.v[i].v
                 /\ \A i \in 1..Len(DefaultHeader.v) :
                        ~Has(given, DefaultHeader.v[i].k)
                            => /\ Has(sent, DefaultHeader.v[i].k)
                               /\ Get(sent, DefaultHeader.v[i].k) = DefaultHeader.v[i].v
            ELSE /\ Has(sent, "User-Agent")
                 /\ Get(sent, "User-Agent") = DEFAULT_USER_AGENT

\* C1 amended: the header object of the caller's options replaces the
\* default header object as a whole: the request carries exactly the
\* caller's headers when options has a header field, and exactly the
\* default header object (the default User-Agent) when it has none.
C1_HeaderReplaceLaw ==
    \A c \in CallIds :
        Req(c).headers =
            IF Has(calls[c].options, "header")
            THEN Get(calls[c].options, "header")
            ELSE DefaultHeader

\* a call whose options name only an Accept header has gone out, and its
\* request carries no User-Agent
C1_Witness ==
    \E c \in CallIds :
        /\ Get(calls[c].options, "header") = AcceptHeader
        /\ Req(c).headers = AcceptHeader
        /\ ~Has(Req(c).headers, "User-Agent")

----------------------------------------------------------------------------
(* C2 *)

\* C2 as stated: a key of the query mapping handed to sendRequest whose
\* value is null or undefined does not appear in the request URL's query
\* string; so schedule() without countryCode or date emits no countrycode
\* or date key.
C2_NullQueryValuesOmitted ==
    \A c \in CallIds :
        LET query == Get(calls[c].sent, "query")
        IN  query.t = "object" =>
                \A i \in 1..Len(query.v) :
                    query.v[i].v.t \in {"null", "undefined"}
                        => ~QueryHasKey(Req(c).url, query.v[i].k)

----------------------------------------------------------------------------
(* C3 *)

\* the arguments each method documents as required
RequiredArgs(method) ==
    CASE method \in {"search", "singleSearch", "searchPeople"} -> {"string"}
      [] method = "lookup" -> {"type", "id"}
      [] method \in {"lookupThetvdb", "lookupImdb", "lookupTvrage"} -> {"id"}
      [] method \in {"show", "episodes", "seasons", "cast", "crew", "aliases"} ->
            {"showid"}
      [] method = "episode" -> {"showid", "season", "episode"}
      [] method = "episodesByDate" -> {"showid", "date"}
      [] method = "seasonEpisodes" -> {"seasonid"}
      [] method \in {"person", "personCastCredits", "personCrewCredits"} ->
            {"personid"}
      [] OTHER -> {}

MissingRequired(call) == \E a \in RequiredArgs(call.method) : call.args[a] = Undef

\* C3 as stated: a call that misses a required argument fails (its promise
\* is rejected without waiting for any response) and no request is ever
\* issued for it.
C3_FailFastOnMissingArgument ==
    \A c \in CallIds :
        MissingRequired(calls[c]) =>
            /\ RequestsOf(c) = {}
            /\ calls[c].state = "rejected"

----------------------------------------------------------------------------
(* C4 *)

\* C4: an embed-capable method called without embed sends no embed[] key,
\* showsIndex without page sends no page key and episodes without specials
\* sends no specials key, whatever the other arguments and the options.
C4_OmissionLaw ==
    \A c \in CallIds :
        LET call == calls[c]
            url == Req(c).url
        IN  /\ (call.method \in EmbedMethods /\ call.args.embed = Undef)
                    => ~QueryHasKey(url, <<"e","m","b","e","d","[","]">>)
            /\ (call.method = "showsIndex" /\ call.args.page = Undef)
                    => ~QueryHasKey(url, <<"p","a","g","e">>)
            /\ (call.method = "episodes" /\ call.args.specials = Undef)
                    => ~QueryHasKey(url, <<"s","p","e","c","i","a","l","s">>)

\* singleSearch has been called without embed, by a caller whose own
\* options.query names embed[], and the URL has a query without embed[]
C4_Witness ==
    \E c \in CallIds :
        /\ calls[c].method = "singleSearch"
        /\ calls[c].args.embed = Undef
        /\ Has(Get(calls[c].options, "query"), <<"e","m","b","e","d","[","]">>)
        /\ QueryHasKey(Req(c).url, <<"q">>)
        /\ ~QueryHasKey(Req(c).url, <<"e","m","b","e","d","[","]">>)

----------------------------------------------------------------------------
(* C5 *)

\* C5: for an embed-capable method called with a non-empty embed list, the
\* embed[] entries of the query string are exactly the list's elements, one
\* entry per element, in the list's order.
C5_ArrayLaw ==
    \A c \in CallIds :
        LET call == calls[c]
        IN  (/\ call.method \in EmbedMethods
             /\ call.args.embed.t = "array"
             /\ call.args.embed.v # <<>>)
            => QueryValues(Req(c).url, <<"e","m","b","e","d","[","]">>) =
                    [i \in 1..Len(call.args.embed.v) |-> call.args.embed.v[i].v]

\* show has been called with two different embeds and its URL lists both
C5_Witness ==
    \E c \in CallIds :
        /\ calls[c].method = "show"
        /\ calls[c].args.embed.t = "array"
        /\ Len(calls[c].args.embed.v) = 2
        /\ calls[c].args.embed.v[1] # calls[c].args.embed.v[2]
        /\ Len(QueryValues(Req(c).url, <<"e","m","b","e","d","[","]">>)) = 2

----------------------------------------------------------------------------
(* C6 *)

\* the path the interface table documents for an identifier-based method
DocumentedPath(method, id) ==
    CASE method = "show" -> <<"s","h","o","w","s","/">> \o id
      [] method = "person" -> <<"p","e","o","p","l","e","/">> \o id
      [] method = "cast" -> <<"s","h","o","w","s","/">> \o id \o <<"/","c","a","s","t">>
      [] method = "crew" -> <<"s","h","o","w","s","/">> \o id \o <<"/","c","r","e","w">>
      [] method = "aliases" -> <<"s","h","o","w","s","/">> \o id \o <<"/","a","k","a","s">>
      [] method = "seasons" ->
            <<"s","h","o","w","s","/">> \o id \o <<"/","s","e","a","s","o","n","s">>
      [] method = "seasonEpisodes" ->
            <<"s","e","a","s","o","n","s","/">> \o id
                \o <<"/","e","p","i","s","o","d","e","s">>

\* the identifier argument of an identifier-based call, as interpolated
IdOf(call) ==
    JsToString(CASE call.method = "person" -> call.args.personid
                 [] call.method = "seasonEpisodes" -> call.args.seasonid
                 [] OTHER -> call.args.showid)

\* http://api.tvmaze.com/
HttpOrigin ==
    <<"h","t","t","p",":","/","/","a","p","i",".","t","v","m","a","z","e",".","c","o","m","/">>

\* https://api.tvmaze.com/
HttpsOrigin ==
    <<"h","t","t","p","s",":","/","/","a","p","i",".","t","v","m","a","z","e",".","c","o","m","/">>

\* scheme://host/path for either scheme
PlainUrls(path) == {HttpOrigin \o path, HttpsOrigin \o path}

\* the calls C6 is about: cast, crew, aliases, seasons, seasonEpisodes, and
\* show and person called without an embed list
IdOnlyCall(call) ==
    \/ call.method \in {"cast", "crew", "aliases", "seasons", "seasonEpisodes"}
    \/ call.method \in {"show", "person"} /\ call.args.embed = Undef

\* C6 as stated: for those calls, with any id and any options, the request
\* URL is exactly scheme://host/ followed by the path template with the id
\* interpolated, and has no query string.
C6_IdEndpointsPlainUrl ==
    \A c \in CallIds :
        IdOnlyCall(calls[c]) =>
            Req(c).url \in PlainUrls(DocumentedPath(calls[c].method, IdOf(calls[c])))

\* whether the options the caller passed carry a query
CallerHasQuery(call) == Get(call.options, "query").t \notin {"undefined", "null"}

\* C6 amended: cast, crew, aliases, seasons and seasonEpisodes forward the
\* caller's options.query to the URL, so the law holds for them when the
\* options carry no query (absent or null); for show and person without
\* embed it holds for any options.  The URL then has no query string and
\* is scheme://host/ followed by the path template with the id
\* interpolated, any ? or # of the id percent-escaped.
C6_IdEndpointsPlainUrlAmended ==
    \A c \in CallIds :
        (/\ IdOnlyCall(calls[c])
         /\ calls[c].method \in {"show", "person"} \/ ~CallerHasQuery(calls[c]))
        => /\ IndexOf(Req(c).url, "?") = 0
           /\ IndexOf(Req(c).url, "#") = 0
           /\ PercentDecode(Req(c).url)
                \in PlainUrls(DocumentedPath(calls[c].method, IdOf(calls[c])))

\* show has been called without embed by a caller whose options carry a
\* query and with an id that contains ? and #, and the URL has no query
C6_Witness ==
    \E c \in CallIds :
        /\ calls[c].method = "show"
        /\ calls[c].args.embed = Undef
        /\ CallerHasQuery(calls[c])
        /\ IndexOf(IdOf(calls[c]), "?") # 0
        /\ IndexOf(Req(c).url, "?") = 0

----------------------------------------------------------------------------
(* C7 *)

\* the page a caller supplies: the page argument of showsIndex; showUpdates
\* and fullSchedule have no page argument, a caller can name a page only in
\* options.query
SuppliedPage(call) ==
    IF call.method = "showsIndex" THEN call.args.page
    ELSE Get(Get(call.options, "query"), <<"p","a","g","e">>)

\* C7 as stated: for showsIndex, showUpdates and fullSchedule the URL has a
\* page parameter if and only if the caller supplied a page and it is
\* truthy.
C7_PagingRule ==
    \A c \in CallIds :
        calls[c].method \in {"showsIndex", "showUpdates", "fullSchedule"} =>
            (QueryHasKey(Req(c).url, <<"p","a","g","e">>) <=> Truthy(SuppliedPage(calls[c])))

\* C7 amended: for showsIndex the URL has a page parameter if and only if
\* the page argument (a number, null or undefined) is truthy, and a page
\* in options.query is ignored; showUpdates and fullSchedule take no page
\* argument and forward options.query as it is, so their URL has a page
\* parameter if and only if options.query has a page key whose value is
\* not an empty array, truthy or not.
C7_PagingRuleAmended ==
    \A c \in CallIds :
        /\ calls[c].method = "showsIndex" =>
            (QueryHasKey(Req(c).url, <<"p","a","g","e">>) <=> Truthy(calls[c].args.page))
        /\ calls[c].method \in {"showUpdates", "fullSchedule"} =>
            (QueryHasKey(Req(c).url, <<"p","a","g","e">>)
                <=> /\ Has(Get(calls[c].options, "query"), <<"p","a","g","e">>)
                    /\ Get(Get(calls[c].options, "query"), <<"p","a","g","e">>) # Arr(<<>>))

\* showUpdates has been called with options.query = {page: 0} and its URL
\* carries page=0
C7_Witness ==
    \E c \in CallIds :
        /\ calls[c].method = "showUpdates"
        /\ Get(Get(calls[c].options, "query"), <<"p","a","g","e">>) = Num(0)
        /\ QueryValues(Req(c).url, <<"p","a","g","e">>) = << <<"0">> >>

----------------------------------------------------------------------------
(* C8 *)

----------------------------------------------------------------------------
(* C9 *)

\* C9: when the transport rejects a call's request, the call's promise is
\* never fulfilled, and it is rejected with the very value the transport
\* rejected with.
C9_FailurePassthrough ==
    \A c \in CallIds :
        Req(c).state = "rejected" =>
            /\ calls[c].state \in {"pending", "rejected"}
            /\ calls[c].state = "pending" => ENABLED OnRejected(c)
            /\ calls[c].state = "rejected" => calls[c].value = Req(c).result

\* a call has been rejected with the transport's 404 error
C9_Witness ==
    \E c \in CallIds :
        /\ calls[c].state = "rejected"
        /\ Req(c).state = "rejected"
        /\ calls[c].value.status = 404

----------------------------------------------------------------------------
(* C10 *)

\* C10: when the transport fulfils a call's request, the call's promise is
\* never rejected, and it is fulfilled with exactly the data field of the
\* response to the one request issued for this call.
C10_SuccessPassthrough ==
    \A c \in CallIds :
        Req(c).state = "fulfilled" =>
            /\ calls[c].state \in {"pending", "fulfilled"}
            /\ calls[c].state = "pending" => ENABLED OnFulfilled(c)
            /\ calls[c].state = "fulfilled" =>
                /\ calls[c].value = Req(c).result.data
                /\ Req(c).call = c

\* a call has been fulfilled with the body the transport returned
C10_Witness ==
    \E c \in CallIds :
        /\ calls[c].state = "fulfilled"
        /\ Req(c).state = "fulfilled"
        /\ calls[c].value \in Rich.bodies

----------------------------------------------------------------------------
(* C11 *)

StartsWith(s, prefix) ==
    Len(s) >= Len(prefix) /\ SubSeq(s, 1, Len(prefix)) = prefix

\* C11: the request URL begins with https://api.tvmaze.com/ when the
\* caller's options.https is true, and with http://api.tvmaze.com/ when
\* options is absent or has no https field; every other field absent from
\* the options takes its default: without a header field the default header
\* object is sent, and without any query field the URL has no query string.
C11_SchemeAndDefaults ==
    \A c \in CallIds :
        LET options == calls[c].options
            url == Req(c).url
        IN  /\ Get(options, "https") = Bool(TRUE) => StartsWith(url, HttpsOrigin)
            /\ ~Has(options, "https") => StartsWith(url, HttpOrigin)
            /\ ~Has(options, "header") => Req(c).headers = DefaultHeader
            /\ ~Has(calls[c].sent, "query") => UrlSearch(url) = <<>>

\* a call whose options are exactly {https: true} has gone out from a
\* method that forwards its options: the URL is an https one without query
\* string and the request carries the default header object
C11_Witness ==
    \E c \in CallIds :
        /\ calls[c].options = Obj(<<Prop("https", Bool(TRUE))>>)
        /\ calls[c].sent = calls[c].options
        /\ StartsWith(Req(c).url, HttpsOrigin)
        /\ UrlSearch(Req(c).url) = <<>>
        /\ Req(c).headers = DefaultHeader

----------------------------------------------------------------------------
(* C12 *)

\* the type name each lookup wrapper passes on
WrapperType(method) ==
    CASE method = "lookupThetvdb" -> Str(<<"t","h","e","t","v","d","b">>)
      [] method = "lookupImdb" -> Str(<<"i","m","d","b">>)
      [] method = "lookupTvrage" -> Str(<<"t","v","r","a","g","e">>)

\* the type of a lookup call: its argument, or the wrapper's fixed name
LookupType(call) ==
    IF call.method = "lookup" THEN call.args.type ELSE WrapperType(call.method)

LookupMethods == {"lookup", "lookupThetvdb", "lookupImdb", "lookupTvrage"}

\* lookup/shows
LookupPath == <<"l","o","o","k","u","p","/","s","h","o","w","s">>

\* C12: lookup(type, id, options) requests path lookup/shows with a query
\* mapping of exactly one entry, the type name as key and the id as value,
\* and for a type and an id given as text the URL's query string decodes to
\* that one entry; lookupThetvdb, lookupImdb and lookupTvrage issue the
\* request that lookup issues for "thetvdb", "imdb" and "tvrage" with the
\* same id and options.
C12_LookupMapping ==
    \A c \in CallIds :
        calls[c].method \in LookupMethods =>
            LET type == LookupType(calls[c])
                id == calls[c].args.id
                query == Get(calls[c].sent, "query")
                url == Req(c).url
                same == RequestOpts(lookup_call(type, id, calls[c].options).path,
                                    lookup_call(type, id, calls[c].options).options)
            IN  /\ calls[c].path = LookupPath
                /\ \E i \in 1..Len(url) :
                        /\ SubSeq(url, 1, i) \in PlainUrls(LookupPath)
                        /\ i = Len(url) \/ url[i + 1] = "?"
                /\ query.t = "object"
                /\ Len(query.v) = 1
                /\ type.t = "string" => query.v[1].k = type.v
                /\ query.v[1].v = id
                /\ type.t = "string" /\ id.t = "string" =>
                        UrlQuery(url) = <<[k |-> type.v, v |-> id.v]>>
                /\ Req(c).method = same.method
                /\ Req(c).url = same.url
                /\ Req(c).headers = same.headers

\* lookupImdb("tt3530232") has gone out as lookup/shows?imdb=tt3530232
C12_Witness ==
    \E c \in CallIds :
        /\ calls[c].method = "lookupImdb"
        /\ calls[c].args.id = Str(<<"t","t","3","5","3","0","2","3","2">>)
        /\ UrlQuery(Req(c).url) =
                <<[k |-> <<"i","m","d","b">>, v |-> <<"t","t","3","5","3","0","2","3","2">>]>>
        /\ calls[c].path = LookupPath

----------------------------------------------------------------------------
(* C13 *)

\* the options a call gets when merged with the configuration as index.js
\* declares it, whatever the calls before it did
OwnOpts(options) ==
    ObjectAssign(ObjectAssign(EmptyObject, DEFAULT_OPTIONS), options)

\* C13: in every state reached by any interleaving of calls, transport
\* answers and promise callbacks, the default configuration still is
\* https = false, the default User-Agent header and no query; every
\* request in flight carries the URL and headers computed from its own
\* call's path and options and the declared defaults alone; and two calls
\* of the same method with the same arguments and options have sent the
\* same URL and headers, whatever happened in between.
C13_NoSharedStateWritten ==
    /\ defaults = DEFAULT_OPTIONS
    /\ Get(defaults, "https") = Bool(FALSE)
    /\ Get(defaults, "header") = Obj(<<Prop("User-Agent", DEFAULT_USER_AGENT)>>)
    /\ ~Has(defaults, "query")
    /\ \A c \in CallIds :
        Req(c).state = "inflight" =>
            LET own == OwnOpts(calls[c].sent)
            IN  /\ Req(c).url = RequestUrl(calls[c].path, own)
                /\ Req(c).headers = Get(own, "header")
    /\ \A c, d \in CallIds :
        /\ calls[c].method = calls[d].method
        /\ calls[c].args = calls[d].args
        /\ calls[c].options = calls[d].options
        => /\ Req(c).url = Req(d).url
           /\ Req(c).headers = Req(d).headers

\* two calls are outstanding at once, a search that sends a query and a
\* cast that sends none, and the defaults are as declared
C13_Witness ==
    \E c, d \in CallIds :
        /\ c < d
        /\ calls[c].method = "search" /\ calls[d].method = "cast"
        /\ calls[c].state = "pending" /\ calls[d].state = "pending"
        /\ Req(c).state = "inflight" /\ Req(d).state = "inflight"
        /\ UrlSearch(Req(c).url) # <<>>
        /\ UrlSearch(Req(d).url) = <<>>
        /\ defaults = DEFAULT_OPTIONS

----------------------------------------------------------------------------
(* C14 *)

\* the keys of a URL's query string, in order
UrlKeys(url) == [i \in 1..Len(UrlQuery(url)) |-> UrlQuery(url)[i].k]

RECURSIVE KeysInInsertionOrder(_)
\* the keys of a query mapping's entries in insertion order, the key of an
\* array value once per element
KeysInInsertionOrder(entries) ==
    IF entries = <<>> THEN <<>>
    ELSE (IF Head(entries).v.t = "array"
          THEN [j \in 1..Len(Head(entries).v.v) |-> Head(entries).k]
          ELSE <<Head(entries).k>>) \o KeysInInsertionOrder(Tail(entries))

\* the decimal text of the numbers callers pass, nothing for an argument
\* left out
Shown(x) ==
    CASE x = Num(1) -> <<"1">>
      [] x = Num(10) -> <<"1","0">>
      [] x = Num(396) -> <<"3","9","6">>
      [] x = Undef -> <<>>

\* C14: the keys of the request URL's query string are the keys of the
\* query mapping handed to sendRequest, in the mapping's insertion order;
\* hence episode(id, s, n) requests
\* shows/{id}/episodebynumber?season={s}&number={n}, schedule(c, d) lists
\* countrycode before date, and singleSearch(q, embed) lists q before every
\* embed[] entry.
C14_InsertionOrderQuery ==
    \A c \in CallIds :
        LET call == calls[c]
            query == Get(call.sent, "query")
            url == Req(c).url
        IN  /\ query.t = "object" => UrlKeys(url) = KeysInInsertionOrder(query.v)
            /\ call.method = "episode" =>
                /\ UrlKeys(url) = <<<<"s","e","a","s","o","n">>, <<"n","u","m","b","e","r">>>>
                /\ call.args.showid = Num(396) =>
                    url \in PlainUrls(
                        <<"s","h","o","w","s","/","3","9","6","/","e","p","i","s","o","d","e",
                          "b","y","n","u","m","b","e","r","?","s","e","a","s","o","n","=">>
                        \o Shown(call.args.season)
                        \o <<"&","n","u","m","b","e","r","=">>
                        \o Shown(call.args.episode))
            /\ call.method = "schedule" =>
                UrlKeys(url) = <<<<"c","o","u","n","t","r","y","c","o","d","e">>,
                                 <<"d","a","t","e">>>>
            /\ call.method = "singleSearch" =>
                /\ Len(UrlKeys(url)) >= 1
                /\ UrlKeys(url)[1] = <<"q">>
                /\ \A i \in 2..Len(UrlKeys(url)) :
                        UrlKeys(url)[i] = <<"e","m","b","e","d","[","]">>
                /\ call.args.embed.t = "array" =>
                        Len(UrlKeys(url)) = 1 + Len(call.args.embed.v)

\* episode(396, 1, 10) has gone out as
\* shows/396/episodebynumber?season=1&number=10
C14_Witness ==
    \E c \in CallIds :
        /\ calls[c].method = "episode"
        /\ calls[c].args.showid = Num(396)
        /\ calls[c].args.season = Num(1)
        /\ calls[c].args.episode = Num(10)
        /\ UrlQuery(Req(c).url) =
                <<[k |-> <<"s","e","a","s","o","n">>, v |-> <<"1">>],
                  [k |-> <<"n","u","m","b","e","r">>, v |-> <<"1","0">>]>>

----------------------------------------------------------------------------
(* C15 *)

\* the methods that build their own query
OwnQueryMethods ==
    {"search", "singleSearch", "searchPeople", "lookup", "lookupThetvdb",
     "lookupImdb", "lookupTvrage", "schedule", "show", "episodes", "episode",
     "episodesByDate", "showsIndex", "person", "personCastCredits",
     "personCrewCredits"}

\* what such a method hands to sendRequest for these arguments and options
OwnQueryCall(method, args, options) ==
    CASE method = "search" -> search_call(args.string, options)
      [] method = "singleSearch" -> singleSearch_call(args.string, args.embed, options)
      [] method = "searchPeople" -> searchPeople_call(args.string, options)
      [] method = "lookup" -> lookup_call(args.type, args.id, options)
      [] method = "lookupThetvdb" -> lookupThetvdb_call(args.id, options)
      [] method = "lookupImdb" -> lookupImdb_call(args.id, options)
      [] method = "lookupTvrage" -> lookupTvrage_call(args.id, options)
      [] method = "schedule" -> schedule_call(args.countryCode, args.date, options)
      [] method = "show" -> show_call(args.showid, args.embed, options)
      [] method = "episodes" -> episodes_call(args.showid, args.specials, options)
      [] method = "episode" ->
            episode_call(args.showid, args.season, args.episode, options)
      [] method = "episodesByDate" -> episodesByDate_call(args.showid, args.date, options)
      [] method = "showsIndex" -> showsIndex_call(args.page, options)
      [] method = "person" -> person_call(args.personid, args.embed, options)
      [] method = "personCastCredits" ->
            personCastCredits_call(args.personid, args.embed, options)
      [] method = "personCrewCredits" ->
            personCrewCredits_call(args.personid, args.embed, options)

\* the request the method would issue for these arguments and options
OwnQueryRequest(method, args, options) ==
    RequestOpts(OwnQueryCall(method, args, options).path,
                OwnQueryCall(method, args, options).options)

\* query fields a caller might put into the options
CallerQueries ==
    {Null,
     Obj(<<Prop(<<"p","a","g","e">>, Num(1))>>),
     Obj(<<Prop(<<"q">>, Str(<<"z">>)), Prop(<<"d","a","t","e">>, Str(<<"z">>))>>),
     Obj(<<Prop(<<"e","m","b","e","d","[","]">>, Arr(<<Str(<<"c","r","e","w">>)>>))>>)}

\* the caller's options with the query field taken out, and with it set to
\* each of those queries
QueryVariants(options) ==
    IF options.t = "object"
    THEN {Delete(options, "query")} \cup {Set(options, "query", q) : q \in CallerQueries}
    ELSE {options} \cup {Obj(<<Prop("query", q)>>) : q \in CallerQueries}

====
